---------------------------- MODULE Spec2Model ----------------------------
(***************************************************************************)
(* QSysFS, the member filesystem provider of vscode-ibmi                   *)
(* (src/src/filesystems/qsys/QSysFs.ts), with its stat cache, the          *)
(* source-date overlay flag, the connection lifecycle events it listens    *)
(* to, and the settings reload of the extension's activation code          *)
(* (src/unnamed/part_000).                                                 *)
(*                                                                         *)
(* Asynchronous operations (stat, readFile, writeFile) are split at their  *)
(* awaits: the part up to the await is one action, the gateway's answer    *)
(* and the continuation are further actions, and the calls in flight are   *)
(* kept in the bag `tasks`.  Everything else is one action per handler.    *)
(***************************************************************************)
EXTENDS Integers, Sequences, FiniteSets, Bags, TLC

(***************************************************************************)
(* Bounds                                                                  *)
(***************************************************************************)
\* calls that may be suspended on the gateway at the same time
MaxTasks == 2
\* distinct contents a member may have (content 0: there is no such member)
MaxContent == 2

(***************************************************************************)
(* Paths (uri.path), as sequences of characters                            *)
(***************************************************************************)
PathDir  == <<"/", "L", "/", "F">>
PathFile == <<"/", "L", "/", "F", "/", "M">>
PathAsp  == <<"/", "A", "/", "L", "/", "F">>
NoPath   == <<>>

Paths == {PathDir, PathFile, PathAsp}

\* String.prototype.split(sep): the pieces between the separators
RECURSIVE SplitFrom(_, _, _, _)
SplitFrom(s, sep, i, cur) ==
    IF i > Len(s) THEN <<cur>>
    ELSE IF s[i] = sep THEN <<cur>> \o SplitFrom(s, sep, i + 1, <<>>)
    ELSE SplitFrom(s, sep, i + 1, Append(cur, s[i]))

Split(s, sep) == SplitFrom(s, sep, 1, <<>>)

\* a classification that counts the names between the separators only
FileTypeOfMutant(path) ==
    IF Len(SelectSeq(Split(path, "/"), LAMBDA piece : piece # <<>>)) > 3
    THEN "File" ELSE "Directory"

\* path.split(`/`).length > 3 ? File : Directory
FileTypeOf(path) ==
    IF Len(Split(path, "/")) > 3 THEN "File" ELSE "Directory"

(***************************************************************************)
(* Identifiers (vscode.Uri: scheme, path, query) and their options         *)
(***************************************************************************)
\* longest path given to getUriFromPath
MaxPathLen == 3

PathChars == {"/", "L", "M"}

\* the strings of at most n characters
RECURSIVE StringsUpTo(_)
StringsUpTo(n) ==
    IF n = 0 THEN {<<>>}
    ELSE LET shorter == StringsUpTo(n - 1)
         IN  shorter \cup {Append(w, c) : w \in shorter, c \in PathChars}

GivenPaths == StringsUpTo(MaxPathLen)

\* QsysFsOptions; given = FALSE: no options, or options without readonly
Options == {[given |-> FALSE, readonly |-> FALSE]} \cup
           {[given |-> TRUE, readonly |-> b] : b \in BOOLEAN}

NoOptions == [given |-> FALSE, readonly |-> FALSE]

NoUri == [scheme |-> "none", path |-> <<>>, query |-> <<>>]

StrReadonly == <<"r", "e", "a", "d", "o", "n", "l", "y">>
StrTrue == <<"t", "r", "u", "e">>
StrFalse == <<"f", "a", "l", "s", "e">>

\* querystring.stringify(options)
Stringify(options) ==
    IF options.given
    THEN StrReadonly \o <<"=">> \o (IF options.readonly THEN StrTrue ELSE StrFalse)
    ELSE <<>>

\* where the first `c` of s is, Len(s) + 1 if there is none
RECURSIVE IndexFrom(_, _, _)
IndexFrom(s, c, i) ==
    IF i > Len(s) THEN i
    ELSE IF s[i] = c THEN i
    ELSE IndexFrom(s, c, i + 1)

\* querystring.parse(query)[key], as the sequence of the values the key is
\* given in the query: none (undefined), one (a string) or several (an array)
ParseValues(query, key) ==
    LET pieces == SelectSeq(Split(query, "&"), LAMBDA piece : piece # <<>>)
        KeyOf(piece) == SubSeq(piece, 1, IndexFrom(piece, "=", 1) - 1)
        ValueOf(piece) == SubSeq(piece, IndexFrom(piece, "=", 1) + 1, Len(piece))
        mine == SelectSeq(pieces, LAMBDA piece : KeyOf(piece) = key)
    IN  [i \in 1 .. Len(mine) |-> ValueOf(mine[i])]

StartsWith(s, c) == Len(s) > 0 /\ s[1] = c

\* an encoder that builds the query from the options only for members
getUriFromPathMutant(path, options) ==
    IF StartsWith(path, "/")
    THEN [scheme |-> "streamfile", path |-> path, query |-> <<>>]
    ELSE [scheme |-> "member", path |-> <<"/">> \o path, query |-> Stringify(options)]

getUriFromPath(path, options) ==
    LET query == Stringify(options)
    IN  IF StartsWith(path, "/")
        THEN [scheme |-> "streamfile", path |-> path, query |-> query]
        ELSE [scheme |-> "member", path |-> <<"/">> \o path, query |-> query]

\* parameters.readonly === `true`
parseFSOptions(uri) ==
    LET values == ParseValues(uri.query, StrReadonly)
    IN  [readonly |-> (Len(values) = 1 /\ values[1] = StrTrue)]

\* queries no encoder produced
OtherQueries ==
    {<<"r", "e", "a", "d", "o", "n", "l", "y">>,
     <<"r", "e", "a", "d", "o", "n", "l", "y", "=">>,
     <<"r", "e", "a", "d", "o", "n", "l", "y", "=", "T", "R", "U", "E">>,
     <<"r", "e", "a", "d", "o", "n", "l", "y", "=", "1">>,
     <<"r", "e", "a", "d", "o", "n", "l", "y", "=", "t", "r", "u", "e", "x">>,
     <<"t", "r", "u", "e">>,
     <<"x", "=", "t", "r", "u", "e">>,
     <<"r", "e", "a", "d", "o", "n", "l", "y", "=", "t", "r", "u", "e", "&", "r", "e", "a", "d", "o", "n", "l", "y", "=", "t", "r", "u", "e">>,
     <<"r", "e", "a", "d", "o", "n", "l", "y", "=", "f", "a", "l", "s", "e", "&", "x", "=", "t", "r", "u", "e">>,
     <<"x", "=", "1", "&", "r", "e", "a", "d", "o", "n", "l", "y", "=", "t", "r", "u", "e">>,
     <<"&", "r", "e", "a", "d", "o", "n", "l", "y", "=", "t", "r", "u", "e">>,
     <<"r", "e", "a", "d", "o", "n", "l", "y", "=", "t", "r", "u", "e", "=", "t", "r", "u", "e">>}

(***************************************************************************)
(* Settings of a connection                                                *)
(***************************************************************************)
Modes == {"edit", "diff"}

Settings == [enableSourceDates : BOOLEAN, readOnlyMode : BOOLEAN, sourceDateMode : Modes]

NoSettings == [enableSourceDates |-> FALSE, readOnlyMode |-> FALSE, sourceDateMode |-> "edit"]

Sections == {"connectionSettings", "showDateSearchButton"}

VARIABLES
    connected,              \* instance.getConnection() / getContent() is defined
    config,                 \* connection.config, the in-memory settings (NoSettings when no connection)
    stored,                 \* the settings as persisted in the editor's configuration
    loading,                \* a settings reload (part_000:80) is awaiting connectionManager.load
    sqlRunner,              \* connection.sqlRunnerAvailable()
    ccsidInvalid,           \* connection.getEncoding().invalid
    extendedMemberSupport,  \* QSysFS.extendedMemberSupport
    sdEnabled,              \* SourceDateHandler: enabled
    sdMode,                 \* SourceDateHandler: mode
    statCache,              \* FileStatCache: path -> entry
    remote,                 \* the host: path -> content of the member (0: none)
    tasks,                  \* bag of the calls suspended at an await
    negSince,               \* history: paths for which a stat stored the Absent marker, no clear since
    renamed,                \* history: paths cleared by a rename, no stat invoked since
    step                    \* history: what the last action was, issued and returned

vars == <<connected, config, stored, loading, sqlRunner, ccsidInvalid,
          extendedMemberSupport, sdEnabled, sdMode, statCache, remote, tasks,
          negSince, renamed, step>>

sessionVars == <<connected, config, stored, loading, sqlRunner, ccsidInvalid>>
overlayVars == <<extendedMemberSupport, sdEnabled, sdMode>>

(***************************************************************************)
(* Stat cache entries and metadata                                         *)
(***************************************************************************)
\* `stale` is history: a writeFile of the path was invoked after the gateway
\* had answered with these attributes.
Entry(kind, ctime, mtime, size, type, perm, stale) ==
    [kind |-> kind, ctime |-> ctime, mtime |-> mtime, size |-> size,
     type |-> type, permissions |-> perm, stale |-> stale]

Missing == Entry("Missing", 0, 0, 0, "none", "none", FALSE)
Absent  == Entry("Absent", 0, 0, 0, "none", "none", FALSE)

Metadata(ctime, mtime, size, type, perm, stale) ==
    Entry("Metadata", ctime, mtime, size, type, perm, stale)

StatCacheGet(cache, path) ==
    IF path \in DOMAIN cache THEN cache[path] ELSE Missing

StatCacheSet(cache, path, entry) ==
    [p \in (DOMAIN cache) \cup {path} |-> IF p = path THEN entry ELSE cache[p]]


StatCacheClear(cache, path) ==
    [p \in (DOMAIN cache) \ {path} |-> cache[p]]

StatCacheClearAll(cache) == [p \in {} |-> Missing]

EmptyCache == [p \in {} |-> Missing]

\* getFilePermission(uri): readonly = parseFSOptions(uri).readonly
getFilePermission(readonly) ==
    IF (connected /\ config.readOnlyMode) \/ readonly THEN "Readonly" ELSE "none"

Contents == 1 .. MaxContent

\* what getAttributes answers for a member holding content c
Attributes(c) == [CREATE_TIME |-> 1, MODIFY_TIME |-> c, DATA_SIZE |-> c]

(***************************************************************************)
(* History record of the last action                                       *)
(***************************************************************************)
\* act, phase   the operation or event, and which part of it ran
\* outcome      "pending" (suspended at an await), "ok", or the failure
\* meta, hit    the metadata stat returned, and whether the cache answered
\* issued       the gateway call or command the action issued, if any
\* found        the kind of cache entry the operation found for its path
\* fresh        the path had been renamed and not been stat-ed since
\* frame        the entries of all other paths are as they were
\* event, recompute, notice     the lifecycle event handled, whether
\*              updateMemberSupport ran, and the message it showed
\* wasEnabled, hadEntries       the overlay flag and the number of cache
\*              entries before a disconnected event
\* given, options, uri         the path and options given to
\*              getUriFromPath and the identifier built, or the identifier
\*              given to parseFSOptions (readonly: what it decoded)
NoStep ==
    [act |-> "init", phase |-> "none", path |-> NoPath, path2 |-> NoPath,
     readonly |-> FALSE, outcome |-> "none", meta |-> Missing, hit |-> FALSE,
     issued |-> "none", dates |-> FALSE, content |-> 0,
     reconnects |-> 0, checks |-> 0, found |-> "none", fresh |-> FALSE,
     frame |-> TRUE, event |-> "none", recompute |-> FALSE, notice |-> "none",
     wasEnabled |-> FALSE, hadEntries |-> 0,
     given |-> <<>>, options |-> NoOptions, uri |-> NoUri]

\* the entries of the paths outside `touched` are the same in both caches
OthersKept(old, new, touched) ==
    \A p \in Paths \ touched : StatCacheGet(new, p) = StatCacheGet(old, p)

(***************************************************************************)
(* Calls in flight                                                         *)
(***************************************************************************)
Task(op, path, readonly, pc) ==
    [op |-> op, path |-> path, readonly |-> readonly, pc |-> pc,
     attrs |-> 0, stale |-> FALSE, dates |-> FALSE, content |-> 0,
     reconnects |-> 0, checks |-> 0]

InFlight == BagToSet(tasks)

Add(t) == tasks (+) SetToBag({t})
Remove(t) == tasks (-) SetToBag({t})
Replace(t, u) == (tasks (-) SetToBag({t})) (+) SetToBag({u})

RECURSIVE Copies(_, _)
Copies(B, S) ==
    IF S = {} THEN 0
    ELSE LET x == CHOOSE y \in S : TRUE IN B[x] + Copies(B, S \ {x})

\* the bag of f(t) for the t of bag B
MapBag(B, f(_)) ==
    LET img == {f(x) : x \in DOMAIN B}
    IN  [r \in img |-> Copies(B, {x \in DOMAIN B : f(x) = r})]


(***************************************************************************)
(* Initial state: the provider has just been constructed, nothing is       *)
(* connected, the host holds any set of members.                           *)
(***************************************************************************)
InitOver(paths, settings, contents) ==
    /\ connected = FALSE
    /\ config = NoSettings
    /\ stored \in settings
    /\ loading = FALSE
    /\ sqlRunner = FALSE
    /\ ccsidInvalid = FALSE
    /\ extendedMemberSupport = FALSE
    /\ sdEnabled = FALSE
    /\ sdMode = "edit"
    /\ statCache = EmptyCache
    /\ remote \in {r \in [Paths -> {0} \cup contents] : \A p \in Paths \ paths : r[p] = 0}
    /\ tasks = EmptyBag
    /\ negSince = {}
    /\ renamed = {}
    /\ step = NoStep

(***************************************************************************)
(* updateMemberSupport                                                     *)
(***************************************************************************)
\* the value extendedMemberSupport is left with
SupportForMutant(conn, cfg, sql) == conn /\ cfg.enableSourceDates

SupportFor(conn, cfg, sql) == conn /\ cfg.enableSourceDates /\ sql

\* updateMemberSupport that looks at the capability before the settings
NoticeForMutant(conn, cfg, sql, ccsid) ==
    IF conn
    THEN IF sql THEN (IF ccsid /\ cfg.enableSourceDates THEN "warning" ELSE "none")
         ELSE "error"
    ELSE "none"

\* the message shown, if any: "error" for showErrorMessage (no SQL),
\* "warning" for showWarningMessage (CCSID 65535)
NoticeFor(conn, cfg, sql, ccsid) ==
    IF conn /\ cfg.enableSourceDates
    THEN IF sql THEN (IF ccsid THEN "warning" ELSE "none") ELSE "error"
    ELSE "none"

updateMemberSupportMutant(conn, cfg, sql, ccsid) ==
    /\ extendedMemberSupport' = IF conn /\ cfg.enableSourceDates THEN sql
                                ELSE extendedMemberSupport
    /\ sdMode' = IF SupportFor(conn, cfg, sql) THEN cfg.sourceDateMode ELSE sdMode
    /\ sdEnabled' = extendedMemberSupport'

\* conn, cfg, sql, ccsid: the connection as the handler finds it
updateMemberSupport(conn, cfg, sql, ccsid) ==
    /\ extendedMemberSupport' = SupportFor(conn, cfg, sql)
    /\ sdMode' = IF SupportFor(conn, cfg, sql) THEN cfg.sourceDateMode ELSE sdMode
    /\ sdEnabled' = extendedMemberSupport'

(***************************************************************************)
(* Lifecycle events                                                        *)
(***************************************************************************)
\* a connection is established (its settings are the stored ones) and the
\* "connected" event is delivered
Connect(sql, ccsid) ==
    /\ connected' = TRUE
    /\ config' = stored
    /\ sqlRunner' = sql
    /\ ccsidInvalid' = ccsid
    /\ loading' = FALSE
    /\ UNCHANGED stored
    /\ updateMemberSupport(TRUE, stored, sql, ccsid)

Connected(sql, ccsid) ==
    /\ ~connected
    /\ Connect(sql, ccsid)
    /\ step' = [NoStep EXCEPT !.act = "connected", !.event = "connected",
                              !.recompute = TRUE,
                              !.notice = NoticeFor(TRUE, stored, sql, ccsid)]
    /\ UNCHANGED <<statCache, remote, tasks, negSince, renamed>>

\* a disconnected handler that clears the cache and leaves the overlay alone
DisconnectedMutant ==
    /\ connected
    /\ connected' = FALSE
    /\ config' = NoSettings
    /\ sqlRunner' = FALSE
    /\ ccsidInvalid' = FALSE
    /\ loading' = FALSE
    /\ statCache' = StatCacheClearAll(statCache)
    /\ negSince' = {}
    /\ step' = [NoStep EXCEPT !.act = "disconnected", !.event = "disconnected",
                              !.wasEnabled = sdEnabled,
                              !.hadEntries = Cardinality(DOMAIN statCache)]
    /\ UNCHANGED <<stored, remote, tasks, renamed, overlayVars>>

\* the connection is gone and the "disconnected" event is delivered
Disconnected ==
    /\ connected
    /\ connected' = FALSE
    /\ config' = NoSettings
    /\ sqlRunner' = FALSE
    /\ ccsidInvalid' = FALSE
    /\ loading' = FALSE
    /\ updateMemberSupport(FALSE, NoSettings, FALSE, FALSE)
    /\ statCache' = StatCacheClearAll(statCache)
    /\ negSince' = {}
    /\ step' = [NoStep EXCEPT !.act = "disconnected", !.event = "disconnected",
                              !.recompute = TRUE,
                              !.wasEnabled = sdEnabled,
                              !.hadEntries = Cardinality(DOMAIN statCache),
                              !.notice = NoticeFor(FALSE, NoSettings, FALSE, FALSE)]
    /\ UNCHANGED <<stored, remote, tasks, renamed>>

\* the stored settings change to `new` and the change event of `section` is
\* delivered; `applied`: the connection's config object already carries them
ConfigChange(section, new, applied) ==
    /\ section = "showDateSearchButton" => new = stored /\ ~applied
    /\ stored' = new
    /\ config' = IF connected /\ applied THEN new ELSE config
    /\ updateMemberSupport(connected, config', sqlRunner, ccsidInvalid)
    /\ loading' = IF connected /\ section = "connectionSettings" THEN TRUE ELSE loading
    /\ step' = [NoStep EXCEPT !.act = "configChange", !.event = "configChange",
                              !.recompute = TRUE,
                              !.notice = NoticeFor(connected, config', sqlRunner, ccsidInvalid)]
    /\ UNCHANGED <<connected, sqlRunner, ccsidInvalid, statCache, remote, tasks,
                   negSince, renamed>>

\* connectionManager.load answers and the settings are assigned to the config
ConfigLoaded ==
    /\ loading
    /\ connected
    /\ config' = stored
    /\ loading' = FALSE
    /\ step' = [NoStep EXCEPT !.act = "configLoaded"]
    /\ UNCHANGED <<connected, stored, sqlRunner, ccsidInvalid, overlayVars,
                   statCache, remote, tasks, negSince, renamed>>

\* a document of the provider is closed
CloseDocument(path) ==
    /\ statCache' = StatCacheClear(statCache, path)
    /\ negSince' = negSince \ {path}
    /\ step' = [NoStep EXCEPT !.act = "close", !.path = path,
                              !.found = StatCacheGet(statCache, path).kind,
                              !.frame = OthersKept(statCache, statCache', {path})]
    /\ UNCHANGED <<sessionVars, overlayVars, remote, tasks, renamed>>

\* a clear command that drops the identifier it is given
ClearCommandMutant(path) ==
    /\ statCache' = StatCacheClearAll(statCache)
    /\ negSince' = {}
    /\ step' = [NoStep EXCEPT !.act = "clear", !.path = path,
                              !.found = StatCacheGet(statCache, path).kind,
                              !.frame = OthersKept(statCache, statCache', {path})]
    /\ UNCHANGED <<sessionVars, overlayVars, remote, tasks, renamed>>

\* code-for-ibmi.clearQSYSStats with an identifier
ClearCommand(path) ==
    /\ statCache' = StatCacheClear(statCache, path)
    /\ negSince' = negSince \ {path}
    /\ step' = [NoStep EXCEPT !.act = "clear", !.path = path,
                              !.found = StatCacheGet(statCache, path).kind,
                              !.frame = OthersKept(statCache, statCache', {path})]
    /\ UNCHANGED <<sessionVars, overlayVars, remote, tasks, renamed>>

\* code-for-ibmi.clearQSYSStats without one
ClearAllCommand ==
    /\ statCache' = StatCacheClearAll(statCache)
    /\ negSince' = {}
    /\ step' = [NoStep EXCEPT !.act = "clearAll",
                              !.hadEntries = Cardinality(DOMAIN statCache)]
    /\ UNCHANGED <<sessionVars, overlayVars, remote, tasks, renamed>>

(***************************************************************************)
(* stat                                                                    *)
(***************************************************************************)
\* stat(uri) up to its await: the cache lookup and, on a miss, either the
\* attribute query (a session exists) or the zeroed placeholder (none does)
StatCall(path, readonly) ==
    LET currentStat == StatCacheGet(statCache, path)
        placeholder == Metadata(0, 0, 0, FileTypeOf(path), getFilePermission(readonly), FALSE)
        call == [NoStep EXCEPT !.act = "stat", !.phase = "call", !.path = path,
                               !.readonly = readonly, !.found = currentStat.kind,
                               !.fresh = (path \in renamed)]
    IN
    /\ renamed' = renamed \ {path}
    /\ IF currentStat.kind = "Missing"
       THEN IF connected
            THEN /\ BagCardinality(tasks) < MaxTasks
                 /\ tasks' = Add(Task("stat", path, readonly, "query"))
                 /\ step' = [call EXCEPT !.outcome = "pending", !.issued = "getAttributes"]
                 /\ UNCHANGED statCache
            ELSE /\ statCache' = StatCacheSet(statCache, path, placeholder)
                 /\ step' = [call EXCEPT !.outcome = "ok", !.meta = placeholder]
                 /\ UNCHANGED tasks
       ELSE /\ step' = IF currentStat.kind = "Absent"
                       THEN [call EXCEPT !.outcome = "NotFound", !.hit = TRUE]
                       ELSE [call EXCEPT !.outcome = "ok", !.hit = TRUE, !.meta = currentStat]
            /\ UNCHANGED <<statCache, tasks>>
    /\ UNCHANGED <<sessionVars, overlayVars, remote, negSince>>

\* the gateway answers an attribute query: the member's attributes as they
\* are now, nothing if there is no such member; when the session is gone
\* the query is rejected and stat fails with that error
AttributesReply(t) ==
    /\ t \in InFlight
    /\ t.op = "stat" /\ t.pc = "query"
    /\ IF connected
       THEN /\ tasks' = Replace(t, [t EXCEPT !.pc = "reply", !.attrs = remote[t.path]])
            /\ step' = [NoStep EXCEPT !.act = "attributesReply", !.path = t.path]
       ELSE /\ tasks' = Remove(t)
            /\ step' = [NoStep EXCEPT !.act = "stat", !.phase = "resume",
                                      !.path = t.path, !.readonly = t.readonly,
                                      !.outcome = "TransferFailed"]
    /\ UNCHANGED <<sessionVars, overlayVars, statCache, remote, negSince, renamed>>

\* stat(uri) after its await
StatResume(t) ==
    LET currentStat == Metadata(Attributes(t.attrs).CREATE_TIME,
                                Attributes(t.attrs).MODIFY_TIME,
                                Attributes(t.attrs).DATA_SIZE,
                                FileTypeOf(t.path), getFilePermission(t.readonly), t.stale)
        call == [NoStep EXCEPT !.act = "stat", !.phase = "resume", !.path = t.path,
                               !.readonly = t.readonly,
                               !.found = StatCacheGet(statCache, t.path).kind]
    IN
    /\ t \in InFlight
    /\ t.op = "stat" /\ t.pc = "reply"
    /\ tasks' = Remove(t)
    /\ IF t.attrs # 0
       THEN /\ statCache' = StatCacheSet(statCache, t.path, currentStat)
            /\ step' = [call EXCEPT !.outcome = "ok", !.meta = currentStat]
            /\ UNCHANGED negSince
       ELSE /\ statCache' = StatCacheSet(statCache, t.path, Absent)
            /\ step' = [call EXCEPT !.outcome = "NotFound"]
            /\ negSince' = negSince \cup {t.path}
    /\ UNCHANGED <<sessionVars, overlayVars, remote, renamed>>

(***************************************************************************)
(* readFile                                                                *)
(***************************************************************************)
DownloadVariant(extended) ==
    IF extended THEN "downloadMemberContentWithDates" ELSE "downloadMemberContent"

\* readFile that reconnects again on its retry
ReadBodyMutant(rest, t) ==
    LET u == [t EXCEPT !.checks = t.checks + 1]
        call == [NoStep EXCEPT !.act = "readFile", !.path = t.path,
                               !.phase = IF t.pc = "retry" THEN "retry" ELSE "call",
                               !.checks = u.checks, !.reconnects = u.reconnects]
    IN
    IF connected
    THEN /\ tasks' = rest (+) SetToBag({[u EXCEPT !.pc = "download",
                                                  !.dates = extendedMemberSupport]})
         /\ step' = [call EXCEPT !.outcome = "pending",
                                 !.issued = DownloadVariant(extendedMemberSupport),
                                 !.dates = extendedMemberSupport]
    ELSE IF FALSE
         THEN /\ tasks' = rest
              /\ step' = [call EXCEPT !.outcome = "NotConnected"]
         ELSE /\ tasks' = rest (+) SetToBag({[u EXCEPT !.pc = "reconnect",
                                                       !.reconnects = u.reconnects + 1]})
              /\ step' = [call EXCEPT !.outcome = "pending",
                                      !.issued = "connectToPrevious",
                                      !.reconnects = u.reconnects + 1]

\* readFile(uri, retrying) up to its await; t is the call as it stands
\* (retrying, reconnections and session checks so far), rest the other calls
ReadBody(rest, t) ==
    LET u == [t EXCEPT !.checks = t.checks + 1]
        call == [NoStep EXCEPT !.act = "readFile", !.path = t.path,
                               !.phase = IF t.pc = "retry" THEN "retry" ELSE "call",
                               !.checks = u.checks, !.reconnects = u.reconnects]
    IN
    IF connected
    THEN /\ tasks' = rest (+) SetToBag({[u EXCEPT !.pc = "download",
                                                  !.dates = extendedMemberSupport]})
         /\ step' = [call EXCEPT !.outcome = "pending",
                                 !.issued = DownloadVariant(extendedMemberSupport),
                                 !.dates = extendedMemberSupport]
    ELSE IF t.pc = "retry"
         THEN /\ tasks' = rest
              /\ step' = [call EXCEPT !.outcome = "NotConnected"]
         ELSE /\ tasks' = rest (+) SetToBag({[u EXCEPT !.pc = "reconnect",
                                                       !.reconnects = u.reconnects + 1]})
              /\ step' = [call EXCEPT !.outcome = "pending",
                                      !.issued = "connectToPrevious",
                                      !.reconnects = u.reconnects + 1]

ReadCall(path) ==
    /\ BagCardinality(tasks) < MaxTasks
    /\ ReadBody(tasks, Task("read", path, FALSE, "call"))
    /\ UNCHANGED <<sessionVars, overlayVars, statCache, remote, negSince, renamed>>

\* code-for-ibmi.connectToPrevious has run: with ok (and nothing connected
\* meanwhile) a connection is established
ReconnectDone(t, ok, sql, ccsid) ==
    /\ t \in InFlight
    /\ t.op = "read" /\ t.pc = "reconnect"
    /\ tasks' = Replace(t, [t EXCEPT !.pc = "retry"])
    /\ IF ok /\ ~connected
       THEN /\ Connect(sql, ccsid)
            /\ step' = [NoStep EXCEPT !.act = "reconnectDone", !.path = t.path,
                                      !.event = "connected", !.recompute = TRUE,
                                      !.notice = NoticeFor(TRUE, stored, sql, ccsid)]
       ELSE /\ sql = FALSE /\ ccsid = FALSE
            /\ step' = [NoStep EXCEPT !.act = "reconnectDone", !.path = t.path]
            /\ UNCHANGED <<sessionVars, overlayVars>>
    /\ UNCHANGED <<statCache, remote, negSince, renamed>>

\* return this.readFile(uri, true)
ReadRetry(t) ==
    /\ t \in InFlight
    /\ t.op = "read" /\ t.pc = "retry"
    /\ ReadBody(Remove(t), t)
    /\ UNCHANGED <<sessionVars, overlayVars, statCache, remote, negSince, renamed>>

\* a readFile that takes an empty answer for a lost session and reconnects
DownloadReplyMutant(t) ==
    LET memberContent == remote[t.path]
        call == [NoStep EXCEPT !.act = "readFile", !.phase = "reply",
                               !.path = t.path, !.dates = t.dates,
                               !.checks = t.checks, !.reconnects = t.reconnects]
    IN
    /\ t \in InFlight
    /\ t.op = "read" /\ t.pc = "download"
    /\ IF connected /\ memberContent = 0
       THEN /\ tasks' = Replace(t, [t EXCEPT !.pc = "reconnect"])
            /\ step' = [call EXCEPT !.outcome = "pending",
                                    !.issued = "connectToPrevious"]
       ELSE /\ tasks' = Remove(t)
            /\ step' = IF ~connected
                       THEN [call EXCEPT !.outcome = "TransferFailed"]
                       ELSE [call EXCEPT !.outcome = "ok", !.content = memberContent]
    /\ UNCHANGED <<sessionVars, overlayVars, statCache, remote, negSince, renamed>>

\* the download answers: the member's content as it is now (with its dates
\* for the with-dates variant), nothing if there is no such member; when the
\* session is gone the download is rejected and readFile fails with that error
DownloadReply(t) ==
    LET memberContent == remote[t.path]
        call == [NoStep EXCEPT !.act = "readFile", !.phase = "reply",
                               !.path = t.path, !.dates = t.dates,
                               !.checks = t.checks, !.reconnects = t.reconnects]
    IN
    /\ t \in InFlight
    /\ t.op = "read" /\ t.pc = "download"
    /\ tasks' = Remove(t)
    /\ step' = IF ~connected
               THEN [call EXCEPT !.outcome = "TransferFailed"]
               ELSE IF memberContent # 0
               THEN [call EXCEPT !.outcome = "ok", !.content = memberContent]
               ELSE [call EXCEPT !.outcome = "ReadError"]
    /\ UNCHANGED <<sessionVars, overlayVars, statCache, remote, negSince, renamed>>

(***************************************************************************)
(* writeFile                                                               *)
(***************************************************************************)
UploadVariant(extended) ==
    IF extended THEN "uploadMemberContentWithDates" ELSE "uploadMemberContent"

\* history: the attributes a suspended stat of `path` already holds were
\* obtained before this writeFile
MarkStale(path, t) ==
    IF t.op = "stat" /\ t.pc = "reply" /\ t.path = path
    THEN [t EXCEPT !.stale = TRUE] ELSE t

WriteClearMutant(cache, path, hasSession) ==
    IF hasSession THEN StatCacheClear(cache, path) ELSE cache

\* the cache after the first statement of writeFile, which runs whether or
\* not there is a session
WriteClear(cache, path, hasSession) == StatCacheClear(cache, path)

\* writeFile(uri, content, options) up to its await
WriteCall(path, content) ==
    LET marked == MapBag(tasks, LAMBDA t : MarkStale(path, t))
        call == [NoStep EXCEPT !.act = "writeFile", !.phase = "call", !.path = path,
                               !.content = content,
                               !.found = StatCacheGet(statCache, path).kind,
                               !.frame = OthersKept(statCache, statCache', {path})]
    IN
    /\ statCache' = WriteClear(statCache, path, connected)
    /\ negSince' = negSince \ {path}
    /\ IF connected
       THEN /\ BagCardinality(tasks) < MaxTasks
            /\ tasks' = marked (+) SetToBag({[Task("write", path, FALSE, "upload")
                                                EXCEPT !.dates = extendedMemberSupport,
                                                       !.content = content]})
            /\ step' = [call EXCEPT !.outcome = "pending",
                                    !.issued = UploadVariant(extendedMemberSupport),
                                    !.dates = extendedMemberSupport]
       ELSE /\ tasks' = marked
            /\ step' = [call EXCEPT !.outcome = "NotConnected"]
    /\ UNCHANGED <<sessionVars, overlayVars, remote, renamed>>

\* the upload answers: with ok the member holds the content written,
\* otherwise the upload failed (always when the session is gone)
UploadReply(t, ok) ==
    LET call == [NoStep EXCEPT !.act = "writeFile", !.phase = "reply", !.path = t.path,
                               !.dates = t.dates, !.content = t.content,
                               !.found = StatCacheGet(statCache, t.path).kind]
    IN
    /\ t \in InFlight
    /\ t.op = "write" /\ t.pc = "upload"
    /\ ok => connected
    /\ tasks' = Remove(t)
    /\ remote' = IF ok THEN [remote EXCEPT ![t.path] = t.content] ELSE remote
    /\ step' = [call EXCEPT !.outcome = IF ok THEN "ok" ELSE "TransferFailed"]
    /\ UNCHANGED <<sessionVars, overlayVars, statCache, negSince, renamed>>

(***************************************************************************)
(* The synchronous operations                                              *)
(***************************************************************************)
Rename(oldPath, newPath) ==
    /\ statCache' = StatCacheClear(StatCacheClear(statCache, oldPath), newPath)
    /\ negSince' = negSince \ {oldPath, newPath}
    /\ renamed' = renamed \cup {oldPath, newPath}
    /\ step' = [NoStep EXCEPT !.act = "rename", !.path = oldPath, !.path2 = newPath,
                              !.outcome = "ok",
                              !.found = StatCacheGet(statCache, oldPath).kind,
                              !.frame = OthersKept(statCache, statCache', {oldPath, newPath})]
    /\ UNCHANGED <<sessionVars, overlayVars, remote, tasks>>

Watch(path) ==
    /\ step' = [NoStep EXCEPT !.act = "watch", !.path = path, !.outcome = "ok"]
    /\ UNCHANGED <<sessionVars, overlayVars, statCache, remote, tasks, negSince, renamed>>

ReadDirectory(path) ==
    /\ step' = [NoStep EXCEPT !.act = "readDirectory", !.path = path,
                              !.outcome = "NotImplemented"]
    /\ UNCHANGED <<sessionVars, overlayVars, statCache, remote, tasks, negSince, renamed>>

CreateDirectory(path) ==
    /\ step' = [NoStep EXCEPT !.act = "createDirectory", !.path = path,
                              !.outcome = "NotImplemented"]
    /\ UNCHANGED <<sessionVars, overlayVars, statCache, remote, tasks, negSince, renamed>>

\* a delete that fails before it touches the cache
DeleteMutant(path) ==
    /\ step' = [NoStep EXCEPT !.act = "delete", !.path = path,
                              !.outcome = "NotImplemented",
                              !.found = StatCacheGet(statCache, path).kind]
    /\ UNCHANGED <<sessionVars, overlayVars, statCache, remote, tasks, negSince, renamed>>

Delete(path) ==
    /\ statCache' = StatCacheClear(statCache, path)
    /\ negSince' = negSince \ {path}
    /\ step' = [NoStep EXCEPT !.act = "delete", !.path = path,
                              !.outcome = "NotImplemented",
                              !.found = StatCacheGet(statCache, path).kind,
                              !.frame = OthersKept(statCache, statCache', {path})]
    /\ UNCHANGED <<sessionVars, overlayVars, remote, tasks, renamed>>

(***************************************************************************)
(* The identifier functions, called on their own                           *)
(***************************************************************************)
Untouched == UNCHANGED <<sessionVars, overlayVars, statCache, remote, tasks,
                         negSince, renamed>>

GetUriFromPath(path, options) ==
    /\ step' = [NoStep EXCEPT !.act = "getUriFromPath", !.given = path,
                              !.options = options,
                              !.uri = getUriFromPath(path, options)]
    /\ Untouched

ParseFSOptions(uri) ==
    /\ step' = [NoStep EXCEPT !.act = "parseFSOptions", !.uri = uri,
                              !.readonly = parseFSOptions(uri).readonly]
    /\ Untouched

\* the identifiers the encoder builds, and member identifiers with the
\* other queries
Identifiers ==
    {getUriFromPath(path, options) : path \in GivenPaths, options \in Options}
    \cup {[scheme |-> "member", path |-> PathFile, query |-> q] : q \in OtherQueries}

(***************************************************************************)
(* Specifications.  Spec is the provider with every operation and event.   *)
(* The others are Spec with the inputs drawn from smaller sets, and with   *)
(* the operations a group of properties is not about left uncalled:        *)
(*   SpecMember   stat, readFile and writeFile of one member, overlapping, *)
(*                under the lifecycle events;                              *)
(*   SpecPaths    the stat cache over several paths, with rename;          *)
(*   SpecPerm     both readonly options of an identifier and the global    *)
(*                read-only mode;                                          *)
(*   SpecOverlay  every setting and capability of the source-date overlay, *)
(*                with readFile and writeFile;                             *)
(*   SpecCache    every operation and event that touches the stat cache,   *)
(*                over a directory path and a member path;                 *)
(*   SpecClear    document close and the clear command, with stat and      *)
(*                readFile, while the overlay is enabled or not;           *)
(*   SpecCodec    getUriFromPath and parseFSOptions over every short path, *)
(*                every options value and a set of hand-written queries.   *)
(***************************************************************************)
Next ==
    \/ \E sql \in BOOLEAN, ccsid \in BOOLEAN : Connected(sql, ccsid)
    \/ Disconnected
    \/ \E section \in Sections, new \in Settings, applied \in BOOLEAN :
          ConfigChange(section, new, applied)
    \/ ConfigLoaded
    \/ \E path \in Paths : CloseDocument(path)
    \/ \E path \in Paths : ClearCommand(path)
    \/ ClearAllCommand
    \/ \E path \in Paths, readonly \in BOOLEAN : StatCall(path, readonly)
    \/ \E t \in InFlight : AttributesReply(t)
    \/ \E t \in InFlight : StatResume(t)
    \/ \E path \in Paths : ReadCall(path)
    \/ \E t \in InFlight, ok \in BOOLEAN, sql \in BOOLEAN, ccsid \in BOOLEAN :
          ReconnectDone(t, ok, sql, ccsid)
    \/ \E t \in InFlight : ReadRetry(t)
    \/ \E t \in InFlight : DownloadReply(t)
    \/ \E path \in Paths, content \in Contents : WriteCall(path, content)
    \/ \E t \in InFlight, ok \in BOOLEAN : UploadReply(t, ok)
    \/ \E oldPath \in Paths, newPath \in Paths : Rename(oldPath, newPath)
    \/ \E path \in Paths : Watch(path)
    \/ \E path \in Paths : ReadDirectory(path)
    \/ \E path \in Paths : CreateDirectory(path)
    \/ \E path \in Paths : Delete(path)
    \/ \E path \in GivenPaths, options \in Options : GetUriFromPath(path, options)
    \/ \E uri \in Identifiers : ParseFSOptions(uri)

Spec == InitOver(Paths, Settings, Contents) /\ [][Next]_vars

\* SpecMember
MemberPaths == {PathFile}
MemberSettings == {s \in Settings : ~s.readOnlyMode /\ s.sourceDateMode = "edit"}

NextMember ==
    \/ \E sql \in BOOLEAN : Connected(sql, FALSE)
    \/ Disconnected
    \/ \E section \in Sections, new \in MemberSettings, applied \in BOOLEAN :
          ConfigChange(section, new, applied)
    \/ ConfigLoaded
    \/ \E path \in MemberPaths : ClearCommand(path)
    \/ \E path \in MemberPaths : StatCall(path, FALSE)
    \/ \E t \in InFlight : AttributesReply(t)
    \/ \E t \in InFlight : StatResume(t)
    \/ \E path \in MemberPaths : ReadCall(path)
    \/ \E t \in InFlight, ok \in BOOLEAN, sql \in BOOLEAN :
          ReconnectDone(t, ok, sql, FALSE)
    \/ \E t \in InFlight : ReadRetry(t)
    \/ \E t \in InFlight : DownloadReply(t)
    \/ \E path \in MemberPaths, content \in Contents : WriteCall(path, content)
    \/ \E t \in InFlight, ok \in BOOLEAN : UploadReply(t, ok)

SpecMember == InitOver(MemberPaths, MemberSettings, Contents) /\ [][NextMember]_vars

\* SpecPaths
NextPaths ==
    \/ Connected(FALSE, FALSE)
    \/ Disconnected
    \/ \E path \in Paths : StatCall(path, FALSE)
    \/ \E t \in InFlight : AttributesReply(t)
    \/ \E t \in InFlight : StatResume(t)
    \/ \E oldPath \in Paths, newPath \in Paths : Rename(oldPath, newPath)

SpecPaths == InitOver(Paths, {NoSettings}, {1}) /\ [][NextPaths]_vars

\* SpecPerm
PermSettings == {s \in Settings : ~s.enableSourceDates /\ s.sourceDateMode = "edit"}

NextPerm ==
    \/ Connected(FALSE, FALSE)
    \/ Disconnected
    \/ \E section \in Sections, new \in PermSettings, applied \in BOOLEAN :
          ConfigChange(section, new, applied)
    \/ ConfigLoaded
    \/ \E path \in MemberPaths : ClearCommand(path)
    \/ \E path \in MemberPaths, readonly \in BOOLEAN : StatCall(path, readonly)
    \/ \E t \in InFlight : AttributesReply(t)
    \/ \E t \in InFlight : StatResume(t)

SpecPerm == InitOver(MemberPaths, PermSettings, Contents) /\ [][NextPerm]_vars

\* SpecOverlay
OverlaySettings == {s \in Settings : ~s.readOnlyMode}

NextOverlay ==
    \/ \E sql \in BOOLEAN, ccsid \in BOOLEAN : Connected(sql, ccsid)
    \/ Disconnected
    \/ \E section \in Sections, new \in OverlaySettings, applied \in BOOLEAN :
          ConfigChange(section, new, applied)
    \/ ConfigLoaded
    \/ \E path \in MemberPaths : ReadCall(path)
    \/ \E t \in InFlight, ok \in BOOLEAN, sql \in BOOLEAN, ccsid \in BOOLEAN :
          ReconnectDone(t, ok, sql, ccsid)
    \/ \E t \in InFlight : ReadRetry(t)
    \/ \E t \in InFlight : DownloadReply(t)
    \/ \E path \in MemberPaths, content \in Contents : WriteCall(path, content)
    \/ \E t \in InFlight, ok \in BOOLEAN : UploadReply(t, ok)

SpecOverlay == InitOver(MemberPaths, OverlaySettings, {1}) /\ [][NextOverlay]_vars

\* SpecCache
CachePaths == {PathDir, PathFile}

NextCache ==
    \/ Connected(FALSE, FALSE)
    \/ Disconnected
    \/ \E section \in Sections : ConfigChange(section, NoSettings, FALSE)
    \/ \E path \in CachePaths : CloseDocument(path)
    \/ \E path \in CachePaths : ClearCommand(path)
    \/ ClearAllCommand
    \/ \E path \in CachePaths : StatCall(path, FALSE)
    \/ \E t \in InFlight : AttributesReply(t)
    \/ \E t \in InFlight : StatResume(t)
    \/ \E path \in CachePaths : WriteCall(path, 1)
    \/ \E t \in InFlight, ok \in BOOLEAN : UploadReply(t, ok)
    \/ \E oldPath \in CachePaths, newPath \in CachePaths : Rename(oldPath, newPath)
    \/ \E path \in CachePaths : ReadDirectory(path)
    \/ \E path \in CachePaths : CreateDirectory(path)
    \/ \E path \in CachePaths : Delete(path)

SpecCache == InitOver(CachePaths, {NoSettings}, {1}) /\ [][NextCache]_vars

\* SpecClear
NextClear ==
    \/ \E sql \in BOOLEAN : Connected(sql, FALSE)
    \/ Disconnected
    \/ \E path \in CachePaths : CloseDocument(path)
    \/ \E path \in CachePaths : ClearCommand(path)
    \/ ClearAllCommand
    \/ \E path \in CachePaths : StatCall(path, FALSE)
    \/ \E t \in InFlight : AttributesReply(t)
    \/ \E t \in InFlight : StatResume(t)
    \/ \E path \in CachePaths : ReadCall(path)
    \/ \E t \in InFlight, ok \in BOOLEAN, sql \in BOOLEAN :
          ReconnectDone(t, ok, sql, FALSE)
    \/ \E t \in InFlight : ReadRetry(t)
    \/ \E t \in InFlight : DownloadReply(t)

SpecClear == InitOver(CachePaths, MemberSettings, {1}) /\ [][NextClear]_vars

\* SpecCodec
NextCodec ==
    \/ \E path \in GivenPaths, options \in Options : GetUriFromPath(path, options)
    \/ \E uri \in Identifiers : ParseFSOptions(uri)

SpecCodec == InitOver({}, {NoSettings}, {1}) /\ [][NextCodec]_vars

(***************************************************************************)
(* Properties                                                              *)
(***************************************************************************)
\* a stat call has returned metadata, answered from the cache
StatHit == step.act = "stat" /\ step.outcome = "ok" /\ step.hit

\* C1: a stat(P) invoked after a writeFile(P) was invoked never returns
\* metadata the gateway answered with before that writeFile was invoked.
\* A stat answered from the cache was invoked in the step that returned it,
\* and metadata is marked stale exactly when a writeFile of its path was
\* invoked after the gateway's answer; so no stat answered from the cache
\* returns stale metadata.
C1_NoStatFromBeforeTheWrite == StatHit => ~step.meta.stale

\* a stat call has just been invoked (the part up to its await has run)
StatInvoked == step.act = "stat" /\ step.phase = "call"

\* a stat call has resumed from its attribute query
StatResumed == step.act = "stat" /\ step.phase = "resume"

\* C2: when the gateway returns no attributes for P, stat(P) stores the
\* Absent marker and fails with NotFound; and every stat(P) invoked after
\* a stat stored the marker, with no clear of P in between (P in negSince),
\* fails with NotFound and issues no attribute query.
C2_NegativeCacheHit ==
    /\ (StatResumed /\ step.outcome = "NotFound")
          => StatCacheGet(statCache, step.path) = Absent
    /\ (StatInvoked /\ step.path \in negSince)
          => (step.outcome = "NotFound" /\ step.issued = "none")

\* a writeFile call has just been invoked (the part up to its await has run)
WriteInvoked == step.act = "writeFile" /\ step.phase = "call"

\* the upload of a writeFile call has just answered
WriteReplied == step.act = "writeFile" /\ step.phase = "reply"

Uploads == {"uploadMemberContent", "uploadMemberContentWithDates"}
Downloads == {"downloadMemberContent", "downloadMemberContentWithDates"}

\* C3: writeFile(P) removes the cache entry of P (metadata or marker) in its
\* first part, together with issuing the upload and whatever the outcome:
\* without a session it fails with NotConnected, issues no upload and no
\* reconnection, and the entry is removed all the same; with a session it
\* issues one upload; and when the upload answers, failed or not, writeFile
\* puts nothing back.
C3_WriteInvalidatesFirst ==
    /\ [](WriteInvoked =>
            /\ StatCacheGet(statCache, step.path) = Missing
            /\ connected => (step.outcome = "pending" /\ step.issued \in Uploads)
            /\ ~connected => (step.outcome = "NotConnected" /\ step.issued = "none"))
    /\ [][WriteReplied' => statCache' = statCache]_vars

\* a writeFile without a session found metadata cached for its path
C3_Witness ==
    WriteInvoked /\ step.outcome = "NotConnected" /\ step.found = "Metadata"

\* C4: rename(A, B) removes the cache entries of A and of B, leaves every
\* other entry as it was and issues no gateway call; and with a live
\* session the next stat invoked on A or on B after the rename (step.fresh)
\* issues an attribute query instead of answering from the cache.
C4_RenameInvalidatesBoth ==
    /\ step.act = "rename" =>
          /\ StatCacheGet(statCache, step.path) = Missing
          /\ StatCacheGet(statCache, step.path2) = Missing
          /\ step.frame
          /\ step.issued = "none"
    /\ (StatInvoked /\ step.fresh /\ connected) => step.issued = "getAttributes"

\* a readFile call has run one of its parts
ReadStep == step.act = "readFile"

\* how far a suspended readFile is from its end
ReadRank(t) ==
    IF t.op # "read" THEN 0
    ELSE IF t.pc = "reconnect" THEN 3
    ELSE IF t.pc = "retry" THEN 2
    ELSE 1

RECURSIVE RankSum(_, _)
RankSum(B, S) ==
    IF S = {} THEN 0
    ELSE LET x == CHOOSE y \in S : TRUE
         IN  B[x] * ReadRank(x) + RankSum(B, S \ {x})

ReadMeasure == RankSum(tasks, DOMAIN tasks)

\* a suspended readFile can take its next step
ReadCanGoOn(t) ==
    ENABLED (\/ \E ok \in BOOLEAN, sql \in BOOLEAN, ccsid \in BOOLEAN :
                   ReconnectDone(t, ok, sql, ccsid)
             \/ ReadRetry(t)
             \/ DownloadReply(t))

\* C5: a readFile invoked without a session issues the reconnection command
\* once and then runs the read once more: with a session at the retry it
\* issues the download (whose content is what it returns), without one it
\* fails with NotConnected and issues nothing more.  No call makes more
\* than one reconnection attempt or more than two session checks, and every
\* call ends: a suspended call can always take its next step, and each step
\* brings it nearer to its end.
C5_ReadRetriesOnce ==
    /\ [](ReadStep =>
            /\ step.reconnects <= 1 /\ step.checks <= 2
            /\ (step.phase = "call" /\ ~connected) =>
                  (step.issued = "connectToPrevious" /\ step.reconnects = 1)
            /\ (step.phase = "call" /\ connected) =>
                  (step.issued \in Downloads /\ step.reconnects = 0)
            /\ (step.phase = "retry" /\ connected) =>
                  (step.outcome = "pending" /\ step.issued \in Downloads
                   /\ step.reconnects = 1 /\ step.checks = 2)
            /\ (step.phase = "retry" /\ ~connected) =>
                  (step.outcome = "NotConnected" /\ step.issued = "none"
                   /\ step.reconnects = 1 /\ step.checks = 2)
            /\ step.outcome = "NotConnected" => step.phase = "retry"
            /\ step.outcome = "ok" =>
                  (step.content # 0 /\ step.content = remote[step.path]))
    /\ [](\A t \in InFlight : t.op = "read" =>
            /\ t.reconnects <= 1 /\ t.checks <= 2
            /\ ReadCanGoOn(t))
    /\ [][(step'.act = "reconnectDone" \/ (ReadStep' /\ step'.phase # "call"))
            => ReadMeasure' < ReadMeasure]_vars

\* a readFile invoked without a session has returned the content after its
\* one reconnection
C5_Witness ==
    ReadStep /\ step.phase = "reply" /\ step.outcome = "ok" /\ step.reconnects = 1

\* a stat call has ended by its own code: it returned or failed NotFound
StatEnded == step.act = "stat" /\ step.outcome \in {"ok", "NotFound"}

\* C6: a stat(P) that ends while there is no session does not fail; it
\* returns metadata with ctime = mtime = size = 0 and the type of the path,
\* also when it was invoked while a session was live.
C6_PlaceholderWithoutSession ==
    (StatEnded /\ ~connected) =>
        /\ step.outcome = "ok"
        /\ step.meta.ctime = 0 /\ step.meta.mtime = 0 /\ step.meta.size = 0
        /\ step.meta.type = FileTypeOf(step.path)

\* a stat call has returned metadata in the step that invoked it
StatReturnedAtOnce == StatInvoked /\ step.outcome = "ok"

\* C7: the metadata stat(identifier) returns carries the Readonly permission
\* exactly if, at the time of the call, the global read-only mode is on or
\* the identifier's readonly option is true (stated for the calls that
\* return in the step that invoked them, where the time of the call is now).
C7_PermissionOfThisCall ==
    StatReturnedAtOnce =>
        ((step.meta.permissions = "Readonly")
            <=> ((connected /\ config.readOnlyMode) \/ step.readonly))

\* C8: after every recompute (on a connected, disconnected or
\* configuration-change event) the overlay is enabled exactly if there is a
\* connection, its configuration requests source dates and the session has
\* the SQL capability; and in every state the provider's
\* extendedMemberSupport flag equals the overlay's enabled flag.
C8_OverlayMirrorsSupport ==
    /\ step.recompute =>
          (sdEnabled <=> (connected /\ config.enableSourceDates /\ sqlRunner))
    /\ extendedMemberSupport = sdEnabled

\* a configuration change was handled with source dates requested and no
\* SQL capability, and the overlay is disabled
C8_Witness ==
    /\ step.event = "configChange" /\ step.recompute
    /\ connected /\ config.enableSourceDates /\ ~sqlRunner /\ ~sdEnabled

\* C9: handling a disconnected event leaves the overlay disabled
\* (extendedMemberSupport false) and the stat cache without any entry,
\* whatever they were before; and the overlay goes from disabled to enabled
\* only in the recompute of a connected or configuration-change event.
C9_DisconnectResets ==
    /\ [](step.event = "disconnected" =>
            (~sdEnabled /\ ~extendedMemberSupport /\ DOMAIN statCache = {}))
    /\ [][(~sdEnabled /\ sdEnabled') =>
            (step'.recompute /\ step'.event \in {"connected", "configChange"})]_vars

\* a disconnected event was handled with the overlay enabled and entries in
\* the stat cache
C9_Witness ==
    step.event = "disconnected" /\ step.wasEnabled /\ step.hadEntries > 0

WithDates == {"downloadMemberContentWithDates", "uploadMemberContentWithDates"}

\* C10: readFile and writeFile issue the with-dates download or upload only
\* while the overlay is enabled, and never in a state where the connection's
\* configuration does not request source dates or the session has no SQL
\* capability (the last capability check failed).
C10_DatesOnlyWhenRequested ==
    step.issued \in WithDates =>
        (sdEnabled /\ connected /\ config.enableSourceDates /\ sqlRunner)

\* a recompute found source dates requested
Requested == connected /\ config.enableSourceDates

\* what C11 says of every notice but the level of the first one
NoticePolicy ==
    /\ (step.recompute /\ Requested /\ ~sqlRunner) => ~sdEnabled
    /\ (step.recompute /\ ~Requested) => step.notice = "none"
    /\ ~step.recompute => step.notice = "none"
    /\ (step.recompute /\ Requested /\ sqlRunner /\ ccsidInvalid) =>
          (step.notice = "warning" /\ sdEnabled)

\* C11 as amended: a recompute that finds source dates requested and no SQL
\* capability raises exactly one error-level notice and leaves the overlay
\* disabled; stat, readFile and writeFile raise no notice; a recompute raises
\* none when source dates are not requested or there is no connection; with
\* the capability present and the encoding invalid the recompute raises the
\* warning-level notice and the overlay is enabled.
C11_NoticePerRecompute ==
    /\ (step.recompute /\ Requested /\ ~sqlRunner) => step.notice = "error"
    /\ NoticePolicy

\* a recompute raised the missing-capability notice
C11_Witness ==
    step.recompute /\ Requested /\ ~sqlRunner /\ step.notice = "error" /\ ~sdEnabled

\* C11 as stated: the notice for the missing capability is warning-level,
\* and the notice for the invalid encoding is a different one.
C11_Original ==
    /\ (step.recompute /\ Requested /\ ~sqlRunner) => step.notice = "warning"
    /\ NoticePolicy

PlainTransfers == {"downloadMemberContent", "uploadMemberContent"}

TransferStep == step.act \in {"readFile", "writeFile"}

NotImplementedStep == step.act \in {"readDirectory", "createDirectory", "delete"}

\* C13: readDirectory, createDirectory and delete fail with the
\* not-implemented error in every state and issue no gateway call; delete(P)
\* leaves no stat-cache entry for P and the other entries as they were;
\* readDirectory and createDirectory leave the stat cache unchanged.
C13_NotImplemented ==
    /\ [](NotImplementedStep =>
            (step.outcome = "NotImplemented" /\ step.issued = "none"))
    /\ [](step.act = "delete" =>
            (StatCacheGet(statCache, step.path) = Missing /\ step.frame))
    /\ [][step'.act \in {"readDirectory", "createDirectory"} =>
            statCache' = statCache]_vars
    /\ [][NotImplementedStep' => tasks' = tasks]_vars

\* delete was called, with a live session, for a path with cached metadata
C13_Witness ==
    step.act = "delete" /\ step.found = "Metadata" /\ connected

\* the queries, among those decoded, in which readonly is given exactly
\* once and its value is the string true
QueriesWithTrue ==
    {<<"r", "e", "a", "d", "o", "n", "l", "y", "=", "t", "r", "u", "e">>,
     <<"x", "=", "1", "&", "r", "e", "a", "d", "o", "n", "l", "y", "=", "t", "r", "u", "e">>,
     <<"&", "r", "e", "a", "d", "o", "n", "l", "y", "=", "t", "r", "u", "e">>}

\* C14: decoding the identifier getUriFromPath builds from a path and
\* options with readonly true or false gives that readonly value, and from
\* no options gives readonly false; an identifier whose readonly query
\* value is not exactly the string true decodes to readonly false; the
\* scheme is streamfile with the path unchanged when the path starts with
\* "/", and member with the path "/" + the given string otherwise.
C14_OptionsRoundTrip ==
    /\ step.act = "getUriFromPath" =>
          /\ parseFSOptions(step.uri).readonly =
                (step.options.given /\ step.options.readonly)
          /\ StartsWith(step.given, "/") =>
                (step.uri.scheme = "streamfile" /\ step.uri.path = step.given)
          /\ ~StartsWith(step.given, "/") =>
                (step.uri.scheme = "member" /\ step.uri.path = <<"/">> \o step.given)
    /\ step.act = "parseFSOptions" =>
          (step.readonly <=> step.uri.query \in QueriesWithTrue)

\* a path that starts with "/" was encoded with readonly true
C14_Witness ==
    /\ step.act = "getUriFromPath" /\ StartsWith(step.given, "/")
    /\ step.options.given /\ step.options.readonly
    /\ parseFSOptions(step.uri).readonly

SeparatorsIn(path) == Cardinality({i \in 1 .. Len(path) : path[i] = "/"})

StatReturned == step.act = "stat" /\ step.outcome = "ok"

\* C15: the type in every metadata value stat returns is decided by the
\* depth of the path alone (file when splitting the path at "/" gives more
\* than 3 pieces, that is with 3 separators or more, directory otherwise),
\* whether or not the object exists on the host: /L/F is a directory,
\* /L/F/M is a file, and so is the pool path /A/L/F without a member.
C15_TypeByDepth ==
    StatReturned =>
        /\ step.meta.type =
              IF SeparatorsIn(step.path) >= 3 THEN "File" ELSE "Directory"
        /\ step.path = PathDir => step.meta.type = "Directory"
        /\ step.path \in {PathFile, PathAsp} => step.meta.type = "File"

\* stat returned metadata for the pool path of an object the host lacks
C15_Witness ==
    StatReturned /\ step.path = PathAsp /\ remote[PathAsp] = 0
                 /\ step.meta.type = "File"

ReadReplied == step.act = "readFile" /\ step.phase = "reply"

\* C16: when the download of a readFile answers, with a live session, that
\* there is no content, the call fails with the read error for its
\* identifier: it ends there, issuing no reconnection and no retry; the
\* read error is raised only then, and NotConnected only by the retry that
\* finds no session.
C16_NoContentIsReadError ==
    /\ []((ReadReplied /\ connected /\ remote[step.path] = 0) =>
            (step.outcome = "ReadError" /\ step.issued = "none"))
    /\ []((step.act = "readFile" /\ step.outcome = "ReadError") =>
            (ReadReplied /\ connected /\ remote[step.path] = 0))
    /\ []((step.act = "readFile" /\ step.outcome = "NotConnected") =>
            (step.phase = "retry" /\ ~connected))
    /\ [][(step'.act = "readFile" /\ step'.outcome = "ReadError") =>
            \E t \in InFlight : /\ t.op = "read" /\ t.pc = "download"
                                /\ t.path = step'.path
                                /\ tasks' = Remove(t)]_vars

\* a readFile invoked with a live session failed with the read error
C16_Witness ==
    /\ ReadReplied /\ step.outcome = "ReadError"
    /\ step.reconnects = 0 /\ step.checks = 1 /\ connected

\* the step clears the entry of p: a writeFile, rename, delete, document
\* close or clear command of p, a clear of all entries, a disconnected event
ClearsEntry(p) ==
    \/ step'.act \in {"disconnected", "clearAll"}
    \/ step'.act \in {"close", "clear", "delete"} /\ step'.path = p
    \/ step'.act = "writeFile" /\ step'.phase = "call" /\ step'.path = p
    \/ step'.act = "rename" /\ p \in {step'.path, step'.path2}

\* the zeroed metadata stat builds when there is no session
IsPlaceholder(entry) ==
    entry.kind = "Metadata" /\ entry.ctime = 0 /\ entry.mtime = 0 /\ entry.size = 0

\* C17: a connected event and a configuration-change event leave the stat
\* cache unchanged; a cached placeholder stays as it is in every step other
\* than a writeFile, rename, delete, document close or clear command of its
\* path, a clear of all entries or a disconnected event; and a stat(P)
\* invoked with a live session while the placeholder of P is cached returns
\* it without a gateway query.
C17_PlaceholderKept ==
    /\ [][step'.event \in {"connected", "configChange"} =>
            statCache' = statCache]_vars
    /\ [][\A p \in Paths :
            (IsPlaceholder(StatCacheGet(statCache, p)) /\ ~ClearsEntry(p))
            => StatCacheGet(statCache', p) = StatCacheGet(statCache, p)]_vars
    /\ []((StatInvoked /\ connected /\ IsPlaceholder(StatCacheGet(statCache, step.path)))
            => (/\ step.outcome = "ok" /\ step.hit /\ step.issued = "none"
                /\ step.meta = StatCacheGet(statCache, step.path)))

\* metadata built from the attributes the gateway returned
IsRemoteMetadata(entry) == entry.kind = "Metadata" /\ ~IsPlaceholder(entry)

\* C18: stat(P) issues the attribute query only when the cache has no entry
\* for P and a session is live, and at most once (its continuation issues
\* none); when the query returns attributes the metadata returned is the
\* entry stored; the stored entry stays as it is in every step that does
\* not clear it; and a stat(P) that finds it returns it without a query.
C18_QueryOnlyOnMiss ==
    /\ []((StatInvoked /\ step.issued = "getAttributes") =>
            (step.found = "Missing" /\ connected))
    /\ [](StatResumed => step.issued = "none")
    /\ []((StatResumed /\ step.outcome = "ok") =>
            StatCacheGet(statCache, step.path) = step.meta)
    /\ [][\A p \in Paths :
            (IsRemoteMetadata(StatCacheGet(statCache, p)) /\ ~ClearsEntry(p))
            => StatCacheGet(statCache', p) = StatCacheGet(statCache, p)]_vars
    /\ []((StatInvoked /\ step.found = "Metadata") =>
            (/\ step.outcome = "ok" /\ step.hit /\ step.issued = "none"
             /\ step.meta = StatCacheGet(statCache, step.path)))

\* C19: closing a document with path P, or the clear command with
\* identifier P, leaves no stat-cache entry for P and every other entry as
\* it was; the clear command without an identifier leaves no entry; neither
\* changes the overlay or issues a gateway call; no step of readFile
\* changes the stat cache, and a readFile with a live session goes on to
\* its download whatever the cache holds for its path.
C19_ClearOnlyThePath ==
    /\ [](step.act \in {"close", "clear"} =>
            (/\ StatCacheGet(statCache, step.path) = Missing
             /\ step.frame /\ step.issued = "none"))
    /\ [](step.act = "clearAll" =>
            (DOMAIN statCache = {} /\ step.issued = "none"))
    /\ [][step'.act \in {"close", "clear", "clearAll"} =>
            (overlayVars' = overlayVars /\ tasks' = tasks)]_vars
    /\ [][step'.act = "readFile" => statCache' = statCache]_vars
    /\ []((step.act = "readFile" /\ step.phase \in {"call", "retry"} /\ connected) =>
            (step.outcome = "pending" /\ step.issued \in Downloads))

\* the clear command removed the cached metadata of one path while the
\* other path had an entry and the overlay was enabled
C19_Witness ==
    /\ step.act = "clear" /\ step.found = "Metadata"
    /\ DOMAIN statCache # {} /\ sdEnabled

=============================================================================
